---- MODULE Spec2Model ----
(***************************************************************************)
(* State-machine model of the QuantumGateSim dashboard components:         *)
(*   OperationsControls_v2  (web_frontend/src/components)                  *)
(*   OperationsControls     (unnamed/part_002)                             *)
(*   EnergyControls_v2      (unnamed/part_001)                             *)
(*   EnergyControls         (web_frontend/src/components)                  *)
(*   PayloadControls_v2     (unnamed/part_003)                             *)
(*   App_v8                 (unnamed/part_000), its WebSocket effect       *)
(* and of the orchestrator's EnergyController and push channel, whose      *)
(* code is not in src/ and is taken from the specification (4.1, 4.6, 6).  *)
(*                                                                         *)
(* A React function component is modelled by its useState cells.  A        *)
(* handler call is one atomic step up to its first await; the              *)
(* continuation after the await is a second step that still reads the      *)
(* state values captured by the render in which the handler was called     *)
(* (kept in the pending task as its closure), while functional updaters    *)
(* (setX(prev => ...)) read the current cell.                              *)
(*                                                                         *)
(* Numbers: bridge_strength is held in thousandths (0.5 = 500), frequency  *)
(* in hundredths of a hertz (7.83 = 783), energy in joules, payload volume *)
(* in hundredths of a cubic metre and payload mass in hundredths of a      *)
(* kilogram (0.1 m3 = 10, 1.93 kg = 193).                                  *)
(***************************************************************************)
EXTENDS Integers, Sequences, FiniteSets, Bags, TLC

VARIABLES
  mounted,              \* which operations component is mounted
  sweepResults,         \* useState<any[]>([])
  isRunning,            \* useState(false)
  transportReady,       \* useState(false)
  stargateStatus,       \* useState({portal1: 'UNLOCKED', portal2: 'UNLOCKED'})
  sweepApprovalStatus,  \* useState<{approved, criteria, report} | null>(null)
  scanResults,          \* useState<any>(null)
  isScanning,           \* useState(false)
  inflight,             \* bag of fetches awaiting their response, with the caller's closure
  timers,               \* queue of pending 100 ms setTimeout callbacks (equal delays fire FIFO)
  step,                 \* what the last step did outside the component: request sent, alert shown
  viaUI,                \* history: every handler call so far came from an enabled control
  energyMounted,        \* which energy component is mounted
  portalNumber,         \* its prop: the portal whose controls it renders
  parameters,           \* useState({energy1, energy2, frequency1, frequency2})
  energyState,          \* useState({portal1Active: false, portal2Active: false})
  evalInput,            \* a result list handed to evaluateSweepResults
  evalOutput,           \* the status evaluateSweepResults stored for it
  connections,          \* most requests an energy component has awaiting a response at once
  simulationData,       \* App_v8: useState<SimulationData>({ status: 'idle' })
  wsConnected,          \* App_v8: useState(false)
  socket,               \* the WebSocket of App_v8: its state and the frames on their way to it
  backend,              \* the orchestrator behind /api and /ws: energy state and energy per portal
  payloadParameters,    \* PayloadControls_v2: useState({payloadVolume, payloadMass, payloadType})
  payloadAssignment     \* PayloadControls_v2: useState({portal1, portal2, loadingBay})

opsVars == <<mounted, sweepResults, isRunning, transportReady, stargateStatus,
             sweepApprovalStatus, timers>>

energyVars == <<energyMounted, portalNumber, parameters, energyState>>

evalVars == <<evalInput, evalOutput>>

pageVars == <<inflight, step, viaUI>>

appVars == <<simulationData, wsConnected, socket, backend>>

scanVars == <<scanResults, isScanning>>

payloadVars == <<payloadParameters, payloadAssignment>>

vars == <<opsVars, scanVars, energyVars, evalVars, pageVars, connections, appVars,
          payloadVars>>

----------------------------------------------------------------------------
(* Bounds of the model *)

\* most asynchronous tasks (fetches awaiting a response plus pending timers) at once
MaxAsync == 2
\* most requests of an energy component awaiting their response at once
MaxEnergyAsync == 1
\* the same, in the runs that follow overlapping requests of an energy component
MaxRaceAsync == 2
\* longest result list handed to evaluateSweepResults on its own
MaxEvalLen == 3
\* most frames on their way to the WebSocket at once
MaxFrames == 2

----------------------------------------------------------------------------
(* Values *)

V2 == "OperationsControls_v2"
V1 == "OperationsControls"

Null == [null |-> TRUE]

\* const minAcceptableStrength = 0.5, in thousandths
minAcceptableStrength == 500

\* Grid points a sweep response may carry: one below the safety gate, one exactly on
\* it.  The physics engine is deterministic: the configuration (frequency1, frequency2,
\* energy1, energy2) fixes bridge_strength.
Candidates ==
  { [frequency1 |-> 783, frequency2 |-> 791, energy1 |-> 1000, energy2 |-> 1000,
     bridge_strength |-> 310],
    [frequency1 |-> 783, frequency2 |-> 783, energy1 |-> 2000, energy2 |-> 2000,
     bridge_strength |-> 500] }

\* The result lists a parameter_sweep response may carry: every list of distinct grid
\* points, the empty list included.
ResultSets ==
  { rs \in UNION { [1..n -> Candidates] : n \in 0..Cardinality(Candidates) } :
      \A i, j \in 1..Len(rs) : rs[i] = rs[j] => i = j }

\* The JSON bodies a parameter_sweep response may carry: with or without a results field.
SweepData ==
  { [has_results |-> TRUE, results |-> rs] : rs \in ResultSets }
    \cup { [has_results |-> FALSE, results |-> <<>>] }

NoRequest == [api |-> "none"]

Quiet(fn) == [fn |-> fn, request |-> NoRequest, alert |-> FALSE]

AsyncLoad == BagCardinality(inflight) + Len(timers)

----------------------------------------------------------------------------
(* Pure functions of the components *)

\* data.results || []
ResultsOrEmpty(data) == IF data.has_results THEN data.results ELSE <<>>

\* results.reduce((best, current) =>
\*   current.bridge_strength > best.bridge_strength ? current : best)
\* on a non-empty array: the first element is the initial accumulator.
RECURSIVE ReduceBest(_, _, _)
ReduceBest(results, best, i) ==
  IF i > Len(results) THEN best
  ELSE ReduceBest(results,
                  IF results[i].bridge_strength > best.bridge_strength
                    THEN results[i] ELSE best,
                  i + 1)

Optimal(results) == ReduceBest(results, results[1], 2)

\* results.reduce((sum, r) => sum + r.bridge_strength, 0)
RECURSIVE SumStrength(_, _)
SumStrength(results, i) ==
  IF i > Len(results) THEN 0
  ELSE results[i].bridge_strength + SumStrength(results, i + 1)

\* avgStrength.toFixed(3): the mean, rounded to the nearest thousandth (evaluated only
\* on lists whose mean is not half-way between two thousandths)
AvgStrength(results) ==
  (2 * SumStrength(results, 1) + Len(results)) \div (2 * Len(results))

\* A gate that refuses a strength exactly on the threshold.
Approved_Strict(strength) == strength > minAcceptableStrength

\* The approval gate of evaluateSweepResults:
\* optimal.bridge_strength >= minAcceptableStrength
Approved(strength) == strength >= minAcceptableStrength

\* The status evaluateSweepResults stores for a non-empty result list.
\* criteria carries the optimal strength, report the count, the mean and the verdict.
Evaluation(results) ==
  LET optimal == Optimal(results)
      approved == Approved(optimal.bridge_strength)
  IN [approved |-> approved,
      criteria |-> [threshold |-> minAcceptableStrength,
                    optimal |-> optimal.bridge_strength],
      report |-> [count |-> Len(results),
                  average |-> AvgStrength(results),
                  verdict |-> IF approved THEN "APPROVED" ELSE "REJECTED"]]

\* A gate that lets a null status through.
IsApproved_NullPasses(status) == status = Null \/ status.approved

\* sweepApprovalStatus?.approved
IsApproved(status) == status # Null /\ status.approved

\* The body of the apply_optimal_parameters request.
ApplyBody_v2(optimal) ==
  [frequency1 |-> optimal.frequency1, frequency2 |-> optimal.frequency2,
   energy1 |-> optimal.energy1, energy2 |-> optimal.energy2]

\* JSON.stringify(optimal)
ApplyBody(optimal) == optimal

----------------------------------------------------------------------------
(* Initial state: the useState initialisers *)

InitOpsVars(component) ==
  /\ mounted = component
  /\ sweepResults = <<>>
  /\ isRunning = FALSE
  /\ transportReady = FALSE
  /\ stargateStatus = [portal1 |-> "UNLOCKED", portal2 |-> "UNLOCKED"]
  /\ sweepApprovalStatus = Null
  /\ timers = <<>>
  /\ scanResults = Null
  /\ isScanning = FALSE

\* The orchestrator at process start: every portal in its zero state.
ZeroPortal == [energyState |-> "OFF", energyJoules |-> 0]
ZeroStore == [portal1 |-> ZeroPortal, portal2 |-> ZeroPortal]

\* App_v8 after its first render and its effect: new WebSocket(wsUrl) is connecting.
InitApp ==
  /\ simulationData = [status |-> "idle"]
  /\ wsConnected = FALSE
  /\ socket = [state |-> "connecting", frames |-> <<>>]
  /\ backend = ZeroStore

\* PayloadControls_v2 after its first render: 0.1 m3 of gold, 1.93 kg, staged in the
\* loading bay as 'Gold - 1.93 kg'.
InitPayloadVars ==
  /\ payloadParameters = [payloadVolume |-> 10, payloadMass |-> 193, payloadType |-> "Gold"]
  /\ payloadAssignment = [portal1 |-> Null, portal2 |-> Null,
                          loadingBay |-> [payloadType |-> "Gold", payloadMass |-> 193]]

InitPage ==
  /\ inflight = EmptyBag
  /\ step = Quiet("mount")
  /\ viaUI = TRUE
  /\ connections = MaxEnergyAsync
  /\ InitApp
  /\ InitPayloadVars

EC2 == "EnergyControls_v2"
EC1 == "EnergyControls"

\* useState initialisers of the energy components: energy 0 in EnergyControls_v2,
\* 1000 in EnergyControls.
InitEnergyVars(component, portal) ==
  /\ energyMounted = component
  /\ portalNumber = portal
  /\ parameters = [energy1 |-> IF component = EC2 THEN 0 ELSE 1000,
                   energy2 |-> IF component = EC2 THEN 0 ELSE 1000,
                   frequency1 |-> 783, frequency2 |-> 791]
  /\ energyState = [portal1Active |-> FALSE, portal2Active |-> FALSE]

InitEvalVars ==
  /\ evalInput = <<>>
  /\ evalOutput = Null

InitOps(component) ==
  /\ InitOpsVars(component)
  /\ InitPage
  /\ InitEnergyVars(EC2, 1)
  /\ InitEvalVars

OpsOnly == UNCHANGED <<scanVars, energyVars, evalVars, connections, appVars, payloadVars>>

Fetch(task) == inflight' = inflight (+) SetToBag({task})

Settle(task) == inflight' = inflight (-) SetToBag({task})

----------------------------------------------------------------------------
(* OperationsControls_v2 *)

\* runParameterSweep up to its await fetch(...).  The button is disabled while isRunning.
runParameterSweep_v2 ==
  /\ mounted = V2
  /\ OpsOnly
  /\ AsyncLoad < MaxAsync
  /\ isRunning' = TRUE
  /\ sweepApprovalStatus' = Null
  /\ Fetch([api |-> "parameter_sweep"])
  /\ step' = [fn |-> "runParameterSweep",
              request |-> [api |-> "parameter_sweep"], alert |-> FALSE]
  /\ viaUI' = (viaUI /\ ~isRunning)
  /\ UNCHANGED <<mounted, sweepResults, transportReady, stargateStatus, timers>>

\* runParameterSweep after the await: the response body parses to data, the results are
\* stored and evaluateSweepResults(data.results || []) is scheduled 100 ms later.
runParameterSweep_v2_resolved(data) ==
  /\ mounted = V2
  /\ OpsOnly
  /\ BagIn([api |-> "parameter_sweep"], inflight)
  /\ Settle([api |-> "parameter_sweep"])
  /\ sweepResults' = ResultsOrEmpty(data)
  /\ timers' = Append(timers, [results |-> ResultsOrEmpty(data)])
  /\ isRunning' = FALSE
  /\ step' = Quiet("runParameterSweep:resolved")
  /\ UNCHANGED <<mounted, transportReady, stargateStatus, sweepApprovalStatus, viaUI>>

\* runParameterSweep after the await: fetch or response.json() rejected (catch, finally).
runParameterSweep_v2_rejected ==
  /\ mounted = V2
  /\ OpsOnly
  /\ BagIn([api |-> "parameter_sweep"], inflight)
  /\ Settle([api |-> "parameter_sweep"])
  /\ isRunning' = FALSE
  /\ step' = Quiet("runParameterSweep:rejected")
  /\ UNCHANGED <<mounted, sweepResults, transportReady, stargateStatus,
                 sweepApprovalStatus, timers, viaUI>>

\* evaluateSweepResults(results): the status it stores, or the standing one when it
\* returns early on an empty list.
evaluateSweepResults(results, standing) ==
  IF Len(results) = 0 THEN standing ELSE Evaluation(results)

\* The oldest 100 ms timer fires: evaluateSweepResults(results) on the list it was given.
evaluateSweepResults_v2 ==
  /\ mounted = V2
  /\ OpsOnly
  /\ timers # <<>>
  /\ timers' = Tail(timers)
  /\ sweepApprovalStatus' = evaluateSweepResults(Head(timers).results, sweepApprovalStatus)
  /\ step' = Quiet("evaluateSweepResults")
  /\ UNCHANGED <<mounted, sweepResults, isRunning, transportReady, stargateStatus,
                 inflight, viaUI>>

\* applyOptimalParameters up to its await fetch(...).  Not approved: alert and return.
\* Approved: reduce over sweepResults (a TypeError on an empty array, caught), then the
\* request.  The button is disabled unless the status is approved.
applyOptimalParameters_v2 ==
  /\ mounted = V2
  /\ OpsOnly
  /\ (IsApproved(sweepApprovalStatus) /\ Len(sweepResults) > 0) => AsyncLoad < MaxAsync
  /\ IF ~IsApproved(sweepApprovalStatus)
       THEN /\ step' = [fn |-> "applyOptimalParameters", request |-> NoRequest,
                        alert |-> TRUE]
            /\ UNCHANGED inflight
       ELSE IF Len(sweepResults) = 0
         THEN /\ step' = Quiet("applyOptimalParameters")
              /\ UNCHANGED inflight
         ELSE /\ Fetch([api |-> "apply_optimal_parameters"])
              /\ step' = [fn |-> "applyOptimalParameters",
                          request |-> [api |-> "apply_optimal_parameters",
                                       body |-> ApplyBody_v2(Optimal(sweepResults))],
                          alert |-> FALSE]
  /\ viaUI' = (viaUI /\ IsApproved(sweepApprovalStatus))
  /\ UNCHANGED <<mounted, sweepResults, isRunning, transportReady, stargateStatus,
                 sweepApprovalStatus, timers>>

\* applyOptimalParameters after the await: the response body parsed as JSON, whatever
\* the HTTP status (response.ok is not read).
applyOptimalParameters_v2_resolved(ok) ==
  /\ mounted = V2
  /\ OpsOnly
  /\ BagIn([api |-> "apply_optimal_parameters"], inflight)
  /\ Settle([api |-> "apply_optimal_parameters"])
  /\ transportReady' = TRUE
  /\ step' = [fn |-> "applyOptimalParameters:resolved", request |-> NoRequest,
              alert |-> FALSE, ok |-> ok]
  /\ UNCHANGED <<mounted, sweepResults, isRunning, stargateStatus, sweepApprovalStatus,
                 timers, viaUI>>

\* applyOptimalParameters after the await: fetch or response.json() rejected (catch).
applyOptimalParameters_v2_rejected ==
  /\ mounted = V2
  /\ OpsOnly
  /\ BagIn([api |-> "apply_optimal_parameters"], inflight)
  /\ Settle([api |-> "apply_optimal_parameters"])
  /\ step' = Quiet("applyOptimalParameters:rejected")
  /\ UNCHANGED <<mounted, sweepResults, isRunning, transportReady, stargateStatus,
                 sweepApprovalStatus, timers, viaUI>>

\* unlockAllPortals up to its await fetch(...).
unlockAllPortals_v2 ==
  /\ mounted = V2
  /\ OpsOnly
  /\ AsyncLoad < MaxAsync
  /\ Fetch([api |-> "unlock_portals"])
  /\ step' = [fn |-> "unlockAllPortals", request |-> [api |-> "unlock_portals"],
              alert |-> FALSE]
  /\ UNCHANGED <<mounted, sweepResults, isRunning, transportReady, stargateStatus,
                 sweepApprovalStatus, timers, viaUI>>

\* unlockAllPortals after the await: a response arrived; the state is reset only
\* if (response.ok).
unlockAllPortals_v2_resolved(ok) ==
  /\ mounted = V2
  /\ OpsOnly
  /\ BagIn([api |-> "unlock_portals"], inflight)
  /\ Settle([api |-> "unlock_portals"])
  /\ IF ok
       THEN /\ stargateStatus' = [portal1 |-> "UNLOCKED", portal2 |-> "UNLOCKED"]
            /\ transportReady' = FALSE
       ELSE UNCHANGED <<stargateStatus, transportReady>>
  /\ step' = [fn |-> "unlockAllPortals:resolved", request |-> NoRequest,
              alert |-> FALSE, ok |-> ok]
  /\ UNCHANGED <<mounted, sweepResults, isRunning, sweepApprovalStatus, timers, viaUI>>

\* unlockAllPortals after the await: fetch rejected; the catch block resets the state.
unlockAllPortals_v2_rejected ==
  /\ mounted = V2
  /\ OpsOnly
  /\ BagIn([api |-> "unlock_portals"], inflight)
  /\ Settle([api |-> "unlock_portals"])
  /\ stargateStatus' = [portal1 |-> "UNLOCKED", portal2 |-> "UNLOCKED"]
  /\ transportReady' = FALSE
  /\ step' = Quiet("unlockAllPortals:rejected")
  /\ UNCHANGED <<mounted, sweepResults, isRunning, sweepApprovalStatus, timers, viaUI>>

NextOpsV2 ==
  \/ runParameterSweep_v2
  \/ \E data \in SweepData : runParameterSweep_v2_resolved(data)
  \/ runParameterSweep_v2_rejected
  \/ evaluateSweepResults_v2
  \/ applyOptimalParameters_v2
  \/ \E ok \in BOOLEAN : applyOptimalParameters_v2_resolved(ok)
  \/ applyOptimalParameters_v2_rejected
  \/ unlockAllPortals_v2
  \/ \E ok \in BOOLEAN : unlockAllPortals_v2_resolved(ok)
  \/ unlockAllPortals_v2_rejected

----------------------------------------------------------------------------
(* OperationsControls *)

\* runParameterSweep up to its await fetch(...).  The approval status is not reset.  The
\* task keeps the sweepResults of the calling render: the evaluateSweepResults it will
\* schedule is the one of that render.
runParameterSweep ==
  /\ mounted = V1
  /\ OpsOnly
  /\ AsyncLoad < MaxAsync
  /\ isRunning' = TRUE
  /\ Fetch([api |-> "parameter_sweep", closure |-> sweepResults])
  /\ step' = [fn |-> "runParameterSweep",
              request |-> [api |-> "parameter_sweep"], alert |-> FALSE]
  /\ viaUI' = (viaUI /\ ~isRunning)
  /\ UNCHANGED <<mounted, sweepResults, transportReady, stargateStatus,
                 sweepApprovalStatus, timers>>

\* runParameterSweep after the await: the results are stored and evaluateSweepResults()
\* of the calling render is scheduled 100 ms later.
runParameterSweep_resolved(task, data) ==
  /\ mounted = V1
  /\ OpsOnly
  /\ task.api = "parameter_sweep"
  /\ BagIn(task, inflight)
  /\ Settle(task)
  /\ sweepResults' = ResultsOrEmpty(data)
  /\ timers' = Append(timers, [results |-> task.closure])
  /\ isRunning' = FALSE
  /\ step' = Quiet("runParameterSweep:resolved")
  /\ UNCHANGED <<mounted, transportReady, stargateStatus, sweepApprovalStatus, viaUI>>

\* runParameterSweep after the await: fetch or response.json() rejected (catch, finally).
runParameterSweep_rejected(task) ==
  /\ mounted = V1
  /\ OpsOnly
  /\ task.api = "parameter_sweep"
  /\ BagIn(task, inflight)
  /\ Settle(task)
  /\ isRunning' = FALSE
  /\ step' = Quiet("runParameterSweep:rejected")
  /\ UNCHANGED <<mounted, sweepResults, transportReady, stargateStatus,
                 sweepApprovalStatus, timers, viaUI>>

\* The oldest 100 ms timer fires: evaluateSweepResults() reads the sweepResults of the
\* render that scheduled it.
evaluateSweepResults_v1 ==
  /\ mounted = V1
  /\ OpsOnly
  /\ timers # <<>>
  /\ timers' = Tail(timers)
  /\ sweepApprovalStatus' = evaluateSweepResults(Head(timers).results, sweepApprovalStatus)
  /\ step' = Quiet("evaluateSweepResults")
  /\ UNCHANGED <<mounted, sweepResults, isRunning, transportReady, stargateStatus,
                 inflight, viaUI>>

\* applyOptimalParameters up to its await fetch(...): body: JSON.stringify(optimal).
applyOptimalParameters ==
  /\ mounted = V1
  /\ OpsOnly
  /\ (IsApproved(sweepApprovalStatus) /\ Len(sweepResults) > 0) => AsyncLoad < MaxAsync
  /\ IF ~IsApproved(sweepApprovalStatus)
       THEN /\ step' = [fn |-> "applyOptimalParameters", request |-> NoRequest,
                        alert |-> TRUE]
            /\ UNCHANGED inflight
       ELSE IF Len(sweepResults) = 0
         THEN /\ step' = Quiet("applyOptimalParameters")
              /\ UNCHANGED inflight
         ELSE /\ Fetch([api |-> "apply_optimal_parameters"])
              /\ step' = [fn |-> "applyOptimalParameters",
                          request |-> [api |-> "apply_optimal_parameters",
                                       body |-> ApplyBody(Optimal(sweepResults))],
                          alert |-> FALSE]
  /\ viaUI' = (viaUI /\ IsApproved(sweepApprovalStatus))
  /\ UNCHANGED <<mounted, sweepResults, isRunning, transportReady, stargateStatus,
                 sweepApprovalStatus, timers>>

\* applyOptimalParameters after the await: a response (ok or not, the latter thrown and
\* caught) or a rejection; none of them changes the component's state.
applyOptimalParameters_settled(outcome) ==
  /\ mounted = V1
  /\ OpsOnly
  /\ BagIn([api |-> "apply_optimal_parameters"], inflight)
  /\ Settle([api |-> "apply_optimal_parameters"])
  /\ step' = Quiet(outcome)
  /\ UNCHANGED <<mounted, sweepResults, isRunning, transportReady, stargateStatus,
                 sweepApprovalStatus, timers, viaUI>>

\* unlockAllPortals: synchronous, no request.
unlockAllPortals ==
  /\ mounted = V1
  /\ OpsOnly
  /\ stargateStatus' = [portal1 |-> "UNLOCKED", portal2 |-> "UNLOCKED"]
  /\ transportReady' = FALSE
  /\ step' = Quiet("unlockAllPortals:returned")
  /\ UNCHANGED <<mounted, sweepResults, isRunning, sweepApprovalStatus, inflight,
                 timers, viaUI>>

\* `portal${portalId}`
PortalKey(portalId) == IF portalId = 1 THEN "portal1" ELSE "portal2"

\* lockStargateForTransport up to its await fetch(...).  The task keeps the stargateStatus
\* of the calling render, which line 157 reads after the await.  The Lock button of a
\* portal is disabled while that portal is LOCKED.
lockStargateForTransport(portalId) ==
  /\ mounted = V1
  /\ OpsOnly
  /\ AsyncLoad < MaxAsync
  /\ Fetch([api |-> "lock_portal", portalId |-> portalId, closure |-> stargateStatus])
  /\ step' = [fn |-> "lockStargateForTransport",
              request |-> [api |-> "lock_portal", portalId |-> portalId],
              alert |-> FALSE]
  /\ viaUI' = (viaUI /\ stargateStatus[PortalKey(portalId)] # "LOCKED")
  /\ UNCHANGED <<mounted, sweepResults, isRunning, transportReady, stargateStatus,
                 sweepApprovalStatus, timers>>

\* The readiness test of lockStargateForTransport, on the status object it is given.
BothLocked(status) == status.portal1 = "LOCKED" /\ status.portal2 = "LOCKED"

\* lockStargateForTransport after the await: the status of the portal is set from
\* data.locked by a functional update; transportReady from the calling render's status.
lockStargateForTransport_resolved(task, locked) ==
  /\ mounted = V1
  /\ OpsOnly
  /\ task.api = "lock_portal"
  /\ BagIn(task, inflight)
  /\ Settle(task)
  /\ stargateStatus' = [stargateStatus EXCEPT
                          ![PortalKey(task.portalId)] = IF locked THEN "LOCKED" ELSE "IDLE"]
  /\ transportReady' = IF BothLocked(task.closure) THEN TRUE ELSE transportReady
  /\ step' = [fn |-> "lockStargateForTransport:resolved", request |-> NoRequest,
              alert |-> FALSE, portalId |-> task.portalId, locked |-> locked]
  /\ UNCHANGED <<mounted, sweepResults, isRunning, sweepApprovalStatus, timers, viaUI>>

\* lockStargateForTransport after the await: fetch or response.json() rejected (catch).
lockStargateForTransport_rejected(task) ==
  /\ mounted = V1
  /\ OpsOnly
  /\ task.api = "lock_portal"
  /\ BagIn(task, inflight)
  /\ Settle(task)
  /\ step' = Quiet("lockStargateForTransport:rejected")
  /\ UNCHANGED <<mounted, sweepResults, isRunning, transportReady, stargateStatus,
                 sweepApprovalStatus, timers, viaUI>>

Pending == BagToSet(inflight)

\* The sweep side of OperationsControls: sweepResults, isRunning, sweepApprovalStatus.
NextOpsSweep ==
  \/ runParameterSweep
  \/ \E task \in Pending : \E data \in SweepData : runParameterSweep_resolved(task, data)
  \/ \E task \in Pending : runParameterSweep_rejected(task)
  \/ evaluateSweepResults_v1
  \/ applyOptimalParameters
  \/ \E outcome \in {"applyOptimalParameters:resolved", "applyOptimalParameters:rejected"} :
       applyOptimalParameters_settled(outcome)

\* The lock side of OperationsControls: stargateStatus, transportReady.  No handler of
\* one side reads or writes a state cell of the other side.
NextOpsLock ==
  \/ unlockAllPortals
  \/ \E portalId \in {1, 2} : lockStargateForTransport(portalId)
  \/ \E task \in Pending : \E locked \in BOOLEAN :
       lockStargateForTransport_resolved(task, locked)
  \/ \E task \in Pending : lockStargateForTransport_rejected(task)

\* Bodies a scan_portal response may carry: the contents found, or an empty portal.
ScanData ==
  { [contents |-> "Gold", required_params |-> "7.83 Hz"],
    [contents |-> "", required_params |-> ""] }

\* The failures the catch block of scanStargateContents may be handed: a non-OK status,
\* a failed fetch, the abort of the 10 s timer, a body that cannot be read.
ScanFailed(portalId, message) ==
  [error |-> message, portal_id |-> portalId, timestamp |-> "now"]

\* The value setScanResults is given on success: OperationsControls_v2 adds portal_id
\* and timestamp to the body, OperationsControls stores the body as it is.
ScanStored(component, portalId, data) ==
  IF component = V2
    THEN [contents |-> data.contents, required_params |-> data.required_params,
          portal_id |-> portalId, timestamp |-> "now"]
    ELSE data

ScanOnly ==
  UNCHANGED <<mounted, sweepResults, isRunning, transportReady, stargateStatus,
              sweepApprovalStatus, timers, energyVars, evalVars, connections, appVars,
              payloadVars>>

\* scanStargateContents(portalId) up to its await fetch(...): isScanning is set (and, in
\* OperationsControls_v2, scanResults cleared), the 10 s abort timer armed and the request
\* sent.  The task is at stage "headers" while the timer is armed.  The Scan buttons are
\* disabled while isScanning.
scanStargateContents(portalId) ==
  /\ ScanOnly
  /\ AsyncLoad < MaxAsync
  /\ isScanning' = TRUE
  /\ scanResults' = IF mounted = V2 THEN Null ELSE scanResults
  /\ Fetch([api |-> "scan_portal", portalId |-> portalId, stage |-> "headers"])
  /\ step' = [fn |-> "scanStargateContents",
              request |-> [api |-> "scan_portal", portalId |-> portalId],
              alert |-> FALSE]
  /\ viaUI' = (viaUI /\ ~isScanning)

\* scanStargateContents after await fetch(...): the response headers arrived and the
\* timer is cleared.  A non-OK status throws into the catch block and the scan ends;
\* otherwise the handler awaits response.json().
scanStargateContents_response(task, ok) ==
  /\ ScanOnly
  /\ task.api = "scan_portal" /\ task.stage = "headers"
  /\ BagIn(task, inflight)
  /\ IF ok
       THEN /\ inflight' = (inflight (-) SetToBag({task}))
                             (+) SetToBag({[task EXCEPT !.stage = "body"]})
            /\ UNCHANGED <<scanResults, isScanning>>
       ELSE /\ Settle(task)
            /\ scanResults' = ScanFailed(task.portalId, "status")
            /\ isScanning' = FALSE
  /\ step' = [fn |-> "scanStargateContents:response", request |-> NoRequest,
              alert |-> FALSE, portalId |-> task.portalId, ok |-> ok]
  /\ UNCHANGED viaUI

\* scanStargateContents after await response.json(): the body arrived and parsed.
scanStargateContents_resolved(task, data) ==
  /\ ScanOnly
  /\ task.api = "scan_portal" /\ task.stage = "body"
  /\ BagIn(task, inflight)
  /\ Settle(task)
  /\ scanResults' = ScanStored(mounted, task.portalId, data)
  /\ isScanning' = FALSE
  /\ step' = [fn |-> "scanStargateContents:resolved", request |-> NoRequest,
              alert |-> FALSE, portalId |-> task.portalId]
  /\ UNCHANGED viaUI

\* scanStargateContents after an await that rejected: fetch failed, or the body broke
\* off or was no JSON (catch, finally).
scanStargateContents_rejected(task) ==
  /\ ScanOnly
  /\ task.api = "scan_portal"
  /\ BagIn(task, inflight)
  /\ Settle(task)
  /\ scanResults' = ScanFailed(task.portalId,
                                IF task.stage = "headers" THEN "fetch" ELSE "body")
  /\ isScanning' = FALSE
  /\ step' = [fn |-> "scanStargateContents:rejected", request |-> NoRequest,
              alert |-> FALSE, portalId |-> task.portalId]
  /\ UNCHANGED viaUI

\* The 10 s timer of scanStargateContents fires before the headers arrived:
\* controller.abort() rejects the fetch (catch, finally).  Once cleared, or once the
\* fetch has settled, the timer changes nothing.
scanStargateContents_timeout(task) ==
  /\ ScanOnly
  /\ task.api = "scan_portal" /\ task.stage = "headers"
  /\ BagIn(task, inflight)
  /\ Settle(task)
  /\ scanResults' = ScanFailed(task.portalId, "aborted")
  /\ isScanning' = FALSE
  /\ step' = [fn |-> "scanStargateContents:timeout", request |-> NoRequest,
              alert |-> FALSE, portalId |-> task.portalId]
  /\ UNCHANGED viaUI

ScanTimeout == \E task \in Pending : scanStargateContents_timeout(task)

NextScan ==
  \/ \E portalId \in {1, 2} : scanStargateContents(portalId)
  \/ \E task \in Pending : \E ok \in BOOLEAN : scanStargateContents_response(task, ok)
  \/ \E task \in Pending : \E data \in ScanData : scanStargateContents_resolved(task, data)
  \/ \E task \in Pending : scanStargateContents_rejected(task)
  \/ ScanTimeout

\* The scan of either operations component.  The browser runs every timer that is due;
\* when, and whether, the backend answers is not up to the page.
SpecScan ==
  (InitOps(V2) \/ InitOps(V1)) /\ [][NextScan]_vars /\ WF_vars(ScanTimeout)

\* OperationsControls_v2
SpecOpsV2 == InitOps(V2) /\ [][NextOpsV2]_vars

\* OperationsControls, lock side
SpecOpsLock == InitOps(V1) /\ [][NextOpsLock]_vars

\* Either component: OperationsControls_v2, or the sweep side of OperationsControls.
SpecSweep == (InitOps(V2) \/ InitOps(V1)) /\ [][NextOpsV2 \/ NextOpsSweep]_vars

\* Either component: OperationsControls_v2, or the lock side of OperationsControls.
SpecTransport == (InitOps(V2) \/ InitOps(V1)) /\ [][NextOpsV2 \/ NextOpsLock]_vars

----------------------------------------------------------------------------
(* EnergyControls_v2 and EnergyControls *)

\* Math.min(currentEnergy + 1000, 20000), Math.max(currentEnergy - 1000, 0)
EnergyMax == 20000
AdjustAmount == 1000
\* the energy toggleEnergyState of EnergyControls_v2 stores when a portal is turned on
DefaultEnergy == 1000
\* <input type="range" min="0" max="20000" step="100">
EnergyStep == 100
\* <input type="range" min="7.0" max="8.5" step="0.01">, in hundredths of a hertz
FrequencyMin == 700
FrequencyMax == 850

\* Values the energy slider hands to handleParameterChange: grid points of its range,
\* among them both ends and one that is no multiple of the adjustment amount.
SliderEnergies == {0, EnergyMax - EnergyStep, EnergyMax}

\* Values the frequency slider hands to handleParameterChange: the ends of its range.
SliderFrequencies == {FrequencyMin, FrequencyMax}

\* `energy${portal}`, `portal${portal}Active`, 'frequency1' : 'frequency2'
EnergyKey(portal) == IF portal = 1 THEN "energy1" ELSE "energy2"
ActiveKey(portal) == IF portal = 1 THEN "portal1Active" ELSE "portal2Active"
FrequencyKey(portal) == IF portal = 1 THEN "frequency1" ELSE "frequency2"

Min(a, b) == IF a < b THEN a ELSE b
Max(a, b) == IF a > b THEN a ELSE b

\* An adjustment without Math.min / Math.max.
Adjusted_Unclamped(currentEnergy, action) ==
  IF action = "increase" THEN currentEnergy + AdjustAmount
                         ELSE currentEnergy - AdjustAmount

\* An adjustment by the step of the energy slider instead of the 1000 J amount.
Adjusted_BySliderStep(currentEnergy, action) ==
  IF action = "increase"
    THEN Min(currentEnergy + EnergyStep, EnergyMax)
    ELSE Max(currentEnergy - EnergyStep, 0)

\* The new energy adjustEnergy, increaseEnergy and decreaseEnergy compute.
Adjusted(currentEnergy, action) ==
  IF action = "increase"
    THEN Min(currentEnergy + AdjustAmount, EnergyMax)
    ELSE Max(currentEnergy - AdjustAmount, 0)

EnergyOnly == UNCHANGED <<opsVars, scanVars, evalVars, connections, appVars, payloadVars>>

\* The energy toggleEnergyState of EnergyControls_v2 stores once the request succeeded.
ToggledEnergy(newState) == IF ~newState THEN 0 ELSE DefaultEnergy

\* EnergyControls_v2.toggleEnergyState(portalNumber) up to its await fetch(...): the
\* optimistic update of energyState and the energy_control request.
toggleEnergyState_v2 ==
  /\ energyMounted = EC2
  /\ EnergyOnly
  /\ AsyncLoad < connections
  /\ LET newState == ~energyState[ActiveKey(portalNumber)]
         request == [api |-> "energy_control", portal_id |-> portalNumber,
                     action |-> IF newState THEN "on" ELSE "off"]
     IN /\ energyState' = [energyState EXCEPT ![ActiveKey(portalNumber)] = newState]
        /\ Fetch([api |-> "energy_control", fn |-> "toggleEnergyState",
                  portal |-> portalNumber, newState |-> newState])
        /\ step' = [fn |-> "toggleEnergyState", request |-> request, alert |-> FALSE]
  /\ UNCHANGED <<energyMounted, portalNumber, parameters, viaUI>>

\* toggleEnergyState after the await: a response arrived and, if (response.ok), its body
\* parsed; the energy is then set to 0 or to 1000.  A non-OK response changes nothing.
toggleEnergyState_v2_resolved(task, ok) ==
  /\ energyMounted = EC2
  /\ EnergyOnly
  /\ task.api = "energy_control" /\ task.fn = "toggleEnergyState"
  /\ BagIn(task, inflight)
  /\ Settle(task)
  /\ parameters' = IF ok
       THEN [parameters EXCEPT ![EnergyKey(task.portal)] = ToggledEnergy(task.newState)]
       ELSE parameters
  /\ step' = [fn |-> "toggleEnergyState:resolved", request |-> NoRequest,
              alert |-> FALSE, portal |-> task.portal, newState |-> task.newState,
              ok |-> ok]
  /\ UNCHANGED <<energyMounted, portalNumber, energyState, viaUI>>

\* toggleEnergyState after the await: fetch or response.json() rejected; the catch block
\* stores the opposite of newState.
toggleEnergyState_v2_rejected(task) ==
  /\ energyMounted = EC2
  /\ EnergyOnly
  /\ task.api = "energy_control" /\ task.fn = "toggleEnergyState"
  /\ BagIn(task, inflight)
  /\ Settle(task)
  /\ energyState' = [energyState EXCEPT ![ActiveKey(task.portal)] = ~task.newState]
  /\ step' = [fn |-> "toggleEnergyState:rejected", request |-> NoRequest,
              alert |-> FALSE, portal |-> task.portal, newState |-> task.newState]
  /\ UNCHANGED <<energyMounted, portalNumber, parameters, viaUI>>

\* EnergyControls_v2.adjustEnergy(portalNumber, action) up to its await fetch(...):
\* newEnergy is computed from the energy of the calling render.  The buttons are disabled
\* unless the portal is active and the energy is not already at the end of its range.
adjustEnergy(action) ==
  /\ energyMounted = EC2
  /\ EnergyOnly
  /\ AsyncLoad < connections
  /\ LET currentEnergy == parameters[EnergyKey(portalNumber)]
         newEnergy == Adjusted(currentEnergy, action)
         enabled == /\ energyState[ActiveKey(portalNumber)]
                    /\ IF action = "increase" THEN currentEnergy < EnergyMax
                                              ELSE currentEnergy > 0
     IN /\ Fetch([api |-> "energy_control", fn |-> "adjustEnergy",
                  portal |-> portalNumber, action |-> action,
                  currentEnergy |-> currentEnergy, newEnergy |-> newEnergy])
        /\ step' = [fn |-> "adjustEnergy",
                    request |-> [api |-> "energy_control", portal_id |-> portalNumber,
                                 action |-> action, amount |-> AdjustAmount],
                    alert |-> FALSE]
        /\ viaUI' = (viaUI /\ enabled)
  /\ UNCHANGED <<energyMounted, portalNumber, parameters, energyState>>

\* adjustEnergy after the await: a response arrived; if (response.ok) newEnergy is stored.
adjustEnergy_resolved(task, ok) ==
  /\ energyMounted = EC2
  /\ EnergyOnly
  /\ task.api = "energy_control" /\ task.fn = "adjustEnergy"
  /\ BagIn(task, inflight)
  /\ Settle(task)
  /\ parameters' = IF ok
       THEN [parameters EXCEPT ![EnergyKey(task.portal)] = task.newEnergy]
       ELSE parameters
  /\ step' = [fn |-> "adjustEnergy:resolved", request |-> NoRequest, alert |-> FALSE,
              portal |-> task.portal, action |-> task.action,
              currentEnergy |-> task.currentEnergy, ok |-> ok]
  /\ UNCHANGED <<energyMounted, portalNumber, energyState, viaUI>>

\* adjustEnergy after the await: fetch rejected (catch).
adjustEnergy_rejected(task) ==
  /\ energyMounted = EC2
  /\ EnergyOnly
  /\ task.api = "energy_control" /\ task.fn = "adjustEnergy"
  /\ BagIn(task, inflight)
  /\ Settle(task)
  /\ step' = Quiet("adjustEnergy:rejected")
  /\ UNCHANGED <<energyVars, viaUI>>

\* EnergyControls_v2.resetEnergyToIdle up to its await fetch(...).
resetEnergyToIdle_v2 ==
  /\ energyMounted = EC2
  /\ EnergyOnly
  /\ AsyncLoad < connections
  /\ Fetch([api |-> "reset_system", fn |-> "resetEnergyToIdle"])
  /\ step' = [fn |-> "resetEnergyToIdle", request |-> [api |-> "reset_system"],
              alert |-> FALSE]
  /\ UNCHANGED <<energyVars, viaUI>>

\* The state resetEnergyToIdle stores: both energies 0, both portals inactive.
IdleParameters(params) == [params EXCEPT !.energy1 = 0, !.energy2 = 0]
IdleEnergyState == [portal1Active |-> FALSE, portal2Active |-> FALSE]

\* resetEnergyToIdle after the await: a response arrived (its status is not read).
resetEnergyToIdle_v2_resolved(task) ==
  /\ energyMounted = EC2
  /\ EnergyOnly
  /\ task.api = "reset_system" /\ task.fn = "resetEnergyToIdle"
  /\ BagIn(task, inflight)
  /\ Settle(task)
  /\ parameters' = IdleParameters(parameters)
  /\ energyState' = IdleEnergyState
  /\ step' = Quiet("resetEnergyToIdle:resolved")
  /\ UNCHANGED <<energyMounted, portalNumber, viaUI>>

\* resetEnergyToIdle after the await: fetch rejected (catch).
resetEnergyToIdle_v2_rejected(task) ==
  /\ energyMounted = EC2
  /\ EnergyOnly
  /\ task.api = "reset_system" /\ task.fn = "resetEnergyToIdle"
  /\ BagIn(task, inflight)
  /\ Settle(task)
  /\ step' = Quiet("resetEnergyToIdle:rejected")
  /\ UNCHANGED <<energyVars, viaUI>>

\* handleParameterChange('energy1' | 'energy2', value) from the energy slider of either
\* component; the slider is disabled while the portal is inactive.
handleParameterChange_energy(value) ==
  /\ EnergyOnly
  /\ parameters' = [parameters EXCEPT ![EnergyKey(portalNumber)] = value]
  /\ step' = Quiet("handleParameterChange")
  /\ viaUI' = (viaUI /\ energyState[ActiveKey(portalNumber)])
  /\ UNCHANGED <<energyMounted, portalNumber, energyState, inflight>>

\* handleParameterChange('frequency1' | 'frequency2', value) from the frequency slider;
\* it is disabled while the portal is inactive in EnergyControls_v2 only.
handleParameterChange_frequency(value) ==
  /\ EnergyOnly
  /\ parameters' = [parameters EXCEPT ![FrequencyKey(portalNumber)] = value]
  /\ step' = Quiet("handleParameterChange")
  /\ viaUI' = (viaUI /\ (energyMounted = EC2 => energyState[ActiveKey(portalNumber)]))
  /\ UNCHANGED <<energyMounted, portalNumber, energyState, inflight>>

\* EnergyControls.toggleEnergyState(portalNumber): the state is flipped by a functional
\* update; the energy is set to 0 when the calling render showed the portal active.
toggleEnergyState ==
  /\ energyMounted = EC1
  /\ EnergyOnly
  /\ energyState' = [energyState EXCEPT ![ActiveKey(portalNumber)] = ~@]
  /\ parameters' = IF ~energyState[ActiveKey(portalNumber)]
       THEN parameters
       ELSE [parameters EXCEPT ![EnergyKey(portalNumber)] = 0]
  /\ step' = [fn |-> "toggleEnergyState:returned", request |-> NoRequest,
              alert |-> FALSE, portal |-> portalNumber,
              newState |-> ~energyState[ActiveKey(portalNumber)]]
  /\ UNCHANGED <<energyMounted, portalNumber, inflight, viaUI>>

\* EnergyControls.increaseEnergy(portalNumber)
increaseEnergy ==
  /\ energyMounted = EC1
  /\ EnergyOnly
  /\ parameters' = [parameters EXCEPT ![EnergyKey(portalNumber)] = Adjusted(@, "increase")]
  /\ step' = Quiet("increaseEnergy")
  /\ viaUI' = (viaUI /\ energyState[ActiveKey(portalNumber)])
  /\ UNCHANGED <<energyMounted, portalNumber, energyState, inflight>>

\* EnergyControls.decreaseEnergy(portalNumber)
decreaseEnergy ==
  /\ energyMounted = EC1
  /\ EnergyOnly
  /\ parameters' = [parameters EXCEPT ![EnergyKey(portalNumber)] = Adjusted(@, "decrease")]
  /\ step' = Quiet("decreaseEnergy")
  /\ viaUI' = (viaUI /\ energyState[ActiveKey(portalNumber)])
  /\ UNCHANGED <<energyMounted, portalNumber, energyState, inflight>>

\* EnergyControls.resetEnergyToIdle: synchronous, no request.
resetEnergyToIdle ==
  /\ energyMounted = EC1
  /\ EnergyOnly
  /\ parameters' = IdleParameters(parameters)
  /\ energyState' = IdleEnergyState
  /\ step' = Quiet("resetEnergyToIdle:returned")
  /\ UNCHANGED <<energyMounted, portalNumber, inflight, viaUI>>

NextEnergyV2 ==
  \/ toggleEnergyState_v2
  \/ \E task \in Pending : \E ok \in BOOLEAN : toggleEnergyState_v2_resolved(task, ok)
  \/ \E task \in Pending : toggleEnergyState_v2_rejected(task)
  \/ \E action \in {"increase", "decrease"} : adjustEnergy(action)
  \/ \E task \in Pending : \E ok \in BOOLEAN : adjustEnergy_resolved(task, ok)
  \/ \E task \in Pending : adjustEnergy_rejected(task)
  \/ resetEnergyToIdle_v2
  \/ \E task \in Pending : resetEnergyToIdle_v2_resolved(task)
  \/ \E task \in Pending : resetEnergyToIdle_v2_rejected(task)

NextEnergyV1 ==
  \/ toggleEnergyState
  \/ increaseEnergy
  \/ decreaseEnergy
  \/ resetEnergyToIdle

NextEnergySlider == \E value \in SliderEnergies : handleParameterChange_energy(value)

NextFrequencySlider ==
  \E value \in SliderFrequencies : handleParameterChange_frequency(value)

InitEnergy(component) ==
  /\ InitOpsVars(V2)
  /\ InitPage
  /\ \E portal \in {1, 2} : InitEnergyVars(component, portal)
  /\ InitEvalVars

\* Either energy component, mounted for portal 1 or for portal 2: the energy state and
\* the energy value of its portal.  (The frequency of a portal is read and written by
\* the frequency slider alone.)
SpecEnergy ==
  (InitEnergy(EC2) \/ InitEnergy(EC1))
    /\ [][NextEnergyV2 \/ NextEnergyV1 \/ NextEnergySlider]_vars

\* Each request is answered before the next control is used: never more than one request
\* awaiting its response.
OneAtATime == BagCardinality(inflight') <= 1

\* EnergyControls_v2 driven through its buttons, one request at a time.
SpecEnergySequential == InitEnergy(EC2) /\ [][NextEnergyV2 /\ OneAtATime]_vars

\* Either energy component with both of its sliders.
SpecFrequency ==
  (InitEnergy(EC2) \/ InitEnergy(EC1))
    /\ [][NextEnergyV2 \/ NextEnergyV1 \/ NextEnergySlider \/ NextFrequencySlider]_vars

\* EnergyControls_v2 with requests that overlap: a control is used again before the
\* response to the previous request has arrived.
InitEnergyRace ==
  /\ InitOpsVars(V2)
  /\ inflight = EmptyBag
  /\ step = Quiet("mount")
  /\ viaUI = TRUE
  /\ connections = MaxRaceAsync
  /\ InitApp
  /\ InitPayloadVars
  /\ \E portal \in {1, 2} : InitEnergyVars(EC2, portal)
  /\ InitEvalVars

SpecEnergyRace == InitEnergyRace /\ [][NextEnergyV2]_vars

----------------------------------------------------------------------------
(* App_v8, its WebSocket, and the orchestrator the dashboard talks to *)

DashboardOnly == UNCHANGED <<opsVars, scanVars, evalVars, connections, payloadVars>>

\* EnergyController.SetEnergyState: turning on gives the default energy only if the
\* previous energy was 0; turning off forces the energy to 0.
SetEnergyState(portal, on) ==
  IF on
    THEN [energyState |-> "ON",
          energyJoules |-> IF portal.energyJoules = 0 THEN DefaultEnergy
                                                      ELSE portal.energyJoules]
    ELSE [energyState |-> "OFF", energyJoules |-> 0]

\* EnergyController.AdjustEnergy on a portal that is ON: the result clamped to [0, 20000].
AdjustEnergy(portal, action) ==
  [portal EXCEPT !.energyJoules = Adjusted(@, action)]

\* The orchestrator handling one request of an energy component: the store afterwards
\* and whether the request succeeded.  AdjustEnergy on an OFF portal fails with
\* InvalidState and changes nothing.
Handled(store, task) ==
  IF task.api = "reset_system"
    THEN [store |-> ZeroStore, ok |-> TRUE]
  ELSE IF task.fn = "toggleEnergyState"
    THEN [store |-> [store EXCEPT ![PortalKey(task.portal)] =
                       SetEnergyState(@, task.newState)],
          ok |-> TRUE]
  ELSE IF store[PortalKey(task.portal)].energyState = "OFF"
    THEN [store |-> store, ok |-> FALSE]
    ELSE [store |-> [store EXCEPT ![PortalKey(task.portal)] =
                       AdjustEnergy(@, task.action)],
          ok |-> TRUE]

\* The SimulationSnapshot the TelemetryBroadcaster serialises from the store.
Snapshot(store) ==
  [status |-> "running", portal1 |-> store.portal1, portal2 |-> store.portal2]

\* TelemetryBroadcaster.Publish to the subscriber of App_v8: the snapshot is enqueued
\* if the connection is open and its buffer not full, and dropped otherwise.
Publish(sock, snapshot) ==
  IF sock.state = "open" /\ Len(sock.frames) < MaxFrames
    THEN [sock EXCEPT !.frames = Append(@, snapshot)]
    ELSE sock

Answered(task) == "response" \in DOMAIN task

\* The orchestrator receives a request of the energy component, applies it, publishes
\* the new snapshot after a successful mutation, and sends its response.
EnergyController(task) ==
  /\ energyMounted = EC2
  /\ DashboardOnly
  /\ BagIn(task, inflight)
  /\ ~Answered(task)
  /\ task.api \in {"energy_control", "reset_system"}
  /\ LET handled == Handled(backend, task)
     IN /\ backend' = handled.store
        /\ socket' = IF handled.ok THEN Publish(socket, Snapshot(handled.store))
                                   ELSE socket
        /\ inflight' = (inflight (-) SetToBag({task}))
                         (+) SetToBag({[response |-> [ok |-> handled.ok]] @@ task})
  /\ step' = Quiet("EnergyController")
  /\ UNCHANGED <<energyVars, viaUI, simulationData, wsConnected>>

\* ws.onopen: the connection is established; the orchestrator registers the subscriber
\* and sends it the current snapshot.
ws_onopen ==
  /\ DashboardOnly
  /\ socket.state = "connecting"
  /\ socket' = [state |-> "open", frames |-> <<Snapshot(backend)>>]
  /\ wsConnected' = TRUE
  /\ step' = Quiet("ws.onopen")
  /\ UNCHANGED <<energyVars, inflight, viaUI, simulationData, backend>>

\* A frame whose text is no JSON.
MalformedFrame == [malformed |-> TRUE]

\* A frame whose text is a JSON object that is no snapshot: it lacks the status field
\* every SimulationData has.
StatuslessFrame == [detail |-> "unexpected"]

\* Frames that are no serialised snapshot.
MalformedFrames == {MalformedFrame, StatuslessFrame}

\* JSON.parse(event.data): throws on a text that is no JSON, and returns the parsed
\* value otherwise, whatever its shape.
JSON_parse(frame) ==
  IF frame = MalformedFrame THEN [threw |-> TRUE]
                            ELSE [threw |-> FALSE, data |-> frame]

\* A frame that is no serialised snapshot arrives on the channel.
ws_malformed(frame) ==
  /\ DashboardOnly
  /\ socket.state = "open"
  /\ Len(socket.frames) < MaxFrames
  /\ socket' = [socket EXCEPT !.frames = Append(@, frame)]
  /\ step' = Quiet("ws:malformed")
  /\ UNCHANGED <<energyVars, inflight, viaUI, simulationData, wsConnected, backend>>

\* ws.onmessage: JSON.parse(event.data) and setSimulationData(data); a frame on which
\* JSON.parse throws is logged and ignored.
ws_onmessage ==
  /\ DashboardOnly
  /\ socket.state = "open"
  /\ Len(socket.frames) > 0
  /\ socket' = [socket EXCEPT !.frames = Tail(@)]
  /\ LET parsed == JSON_parse(Head(socket.frames))
     IN simulationData' = IF parsed.threw THEN simulationData ELSE parsed.data
  /\ step' = [fn |-> "ws.onmessage", request |-> NoRequest, alert |-> FALSE,
              frame |-> Head(socket.frames)]
  /\ UNCHANGED <<energyVars, inflight, viaUI, wsConnected, backend>>

\* ws.onerror: setWsConnected(false); the browser closes the connection next.
ws_onerror ==
  /\ DashboardOnly
  /\ socket.state \in {"connecting", "open"}
  /\ socket' = [state |-> "failed", frames |-> <<>>]
  /\ wsConnected' = FALSE
  /\ step' = Quiet("ws.onerror")
  /\ UNCHANGED <<energyVars, inflight, viaUI, simulationData, backend>>

\* ws.onclose: setWsConnected(false); the effect opens no new connection.
ws_onclose ==
  /\ DashboardOnly
  /\ socket.state \in {"open", "failed"}
  /\ socket' = [state |-> "closed", frames |-> <<>>]
  /\ wsConnected' = FALSE
  /\ step' = Quiet("ws.onclose")
  /\ UNCHANGED <<energyVars, inflight, viaUI, simulationData, backend>>

NextApp ==
  \/ ws_onopen
  \/ \E frame \in MalformedFrames : ws_malformed(frame)
  \/ ws_onmessage
  \/ ws_onerror
  \/ ws_onclose

\* EnergyControls_v2 driven through its ON/OFF and Reset All buttons, with the responses
\* the orchestrator gave; a request may also fail on its way there or back.
NextEnergyServed ==
  \/ toggleEnergyState_v2
  \/ \E task \in Pending :
       Answered(task) /\ toggleEnergyState_v2_resolved(task, task.response.ok)
  \/ \E task \in Pending : toggleEnergyState_v2_rejected(task)
  \/ resetEnergyToIdle_v2
  \/ \E task \in Pending : Answered(task) /\ resetEnergyToIdle_v2_resolved(task)
  \/ \E task \in Pending : resetEnergyToIdle_v2_rejected(task)
  \/ \E task \in Pending : EnergyController(task)

\* App_v8 with one of its EnergyControls_v2 instances and the orchestrator.
SpecDashboard == InitEnergy(EC2) /\ [][NextEnergyServed \/ NextApp]_vars

\* The ways a request can fail without the orchestrator applying it: the fetch rejects
\* (network error), or an error response comes back (non-OK status).
Failures == {"network", "status"}

\* A request of the energy component fails before the orchestrator has applied it.
EnergyRequestFails(task, failure) ==
  /\ energyMounted = EC2
  /\ DashboardOnly
  /\ BagIn(task, inflight)
  /\ ~Answered(task)
  /\ inflight' = (inflight (-) SetToBag({task}))
                   (+) SetToBag({[response |-> [ok |-> FALSE, failure |-> failure]]
                                   @@ task})
  /\ step' = Quiet("EnergyRequestFails")
  /\ UNCHANGED <<energyVars, viaUI, appVars>>

\* The outcome of a request as toggleEnergyState sees it.
Succeeded(task) == Answered(task) /\ task.response.ok
Failed(task, failure) ==
  Answered(task) /\ ~task.response.ok /\ task.response.failure = failure

\* The ON/OFF button of EnergyControls_v2 with the orchestrator behind it: every request
\* is either applied by the orchestrator or fails without being applied, and its outcome
\* reaches toggleEnergyState at any later time.
NextToggleServed ==
  \/ toggleEnergyState_v2
  \/ \E task \in Pending : Succeeded(task) /\ toggleEnergyState_v2_resolved(task, TRUE)
  \/ \E task \in Pending :
       Failed(task, "status") /\ toggleEnergyState_v2_resolved(task, FALSE)
  \/ \E task \in Pending : Failed(task, "network") /\ toggleEnergyState_v2_rejected(task)
  \/ \E task \in Pending : EnergyController(task)
  \/ \E task \in Pending : \E failure \in Failures : EnergyRequestFails(task, failure)

\* Requests reach the orchestrator in the order they were sent: the fate of a request is
\* decided before the next one is sent.
InOrder == Cardinality({task \in BagToSet(inflight') : ~Answered(task)}) <= 1

\* EnergyControls_v2 whose ON/OFF button is clicked again while earlier toggle requests
\* are still awaiting their outcome.
SpecToggleRace == InitEnergyRace /\ [][NextToggleServed /\ InOrder]_vars

\* The Reset All button of EnergyControls_v2.
NextEnergyReset ==
  \/ resetEnergyToIdle_v2
  \/ \E task \in Pending : resetEnergyToIdle_v2_resolved(task)
  \/ \E task \in Pending : resetEnergyToIdle_v2_rejected(task)

\* App_v8: OperationsControls_v2 next to an EnergyControls_v2 whose Reset All is used.
SpecReset == InitEnergy(EC2) /\ [][NextOpsV2 \/ NextEnergyReset]_vars

----------------------------------------------------------------------------
(* PayloadControls_v2 *)

\* const materialDensities = {...}, in kg/m3, each as the fraction num / den
materialDensities ==
  [Gold     |-> [num |-> 193,  den |-> 10],
   Lead     |-> [num |-> 1134, den |-> 100],
   Iron     |-> [num |-> 787,  den |-> 100],
   Aluminum |-> [num |-> 27,   den |-> 10],
   Water    |-> [num |-> 1,    den |-> 1],
   Air      |-> [num |-> 1225, den |-> 1000000],
   Titanium |-> [num |-> 451,  den |-> 100],
   Copper   |-> [num |-> 896,  den |-> 100],
   Silver   |-> [num |-> 1049, den |-> 100],
   Platinum |-> [num |-> 2145, den |-> 100]]

\* The materials the select is set to, and the volumes the slider (min 0.01, max 2.0,
\* step 0.01) is set to, in the runs of the model.
Materials == {"Gold", "Water"}
Volumes == {19, 35}

\* The (material, volume) pairs of the slider's grid for which the IEEE-754 double
\* product payloadVolume * density lies below the half-way point between two hundredths
\* although the real product lies on it, so that toFixed(2) rounds it down.
BelowHalfway ==
  { <<"Gold", 35>>, <<"Gold", 145>>, <<"Gold", 165>>, <<"Gold", 175>>, <<"Gold", 195>>,
    <<"Lead", 25>>, <<"Lead", 75>>, <<"Lead", 175>>, <<"Iron", 150>>,
    <<"Aluminum", 35>>, <<"Aluminum", 85>>, <<"Aluminum", 95>>, <<"Aluminum", 115>>,
    <<"Titanium", 50>>, <<"Titanium", 150>>, <<"Silver", 150>>,
    <<"Platinum", 30>>, <<"Platinum", 50>>, <<"Platinum", 70>>, <<"Platinum", 90>>,
    <<"Platinum", 150>>, <<"Platinum", 170>>, <<"Platinum", 190>> }

\* volume * density to the nearest hundredth, a half rounded up.
RoundedProduct(volume, density) ==
  (2 * volume * density.num + density.den) \div (2 * density.den)

\* A mass truncated to whole hundredths instead of rounded.
Mass_Truncated(volume, material) ==
  (volume * materialDensities[material].num) \div materialDensities[material].den

\* Number((newParams.payloadVolume * density).toFixed(2)), in hundredths of a kilogram:
\* toFixed rounds the double product, which is the real product rounded to the nearest
\* hundredth except for the pairs of BelowHalfway.
Mass(volume, material) ==
  IF <<material, volume>> \in BelowHalfway
    THEN RoundedProduct(volume, materialDensities[material]) - 1
    ELSE RoundedProduct(volume, materialDensities[material])

\* `${parameters.payloadType} - ${parameters.payloadMass} kg`: the string is held as the
\* material and the mass it names.
Description(params) ==
  [payloadType |-> params.payloadType, payloadMass |-> params.payloadMass]

PayloadOnly ==
  UNCHANGED <<opsVars, scanVars, energyVars, evalVars, connections, appVars>>

\* handleParameterChange('payloadType', value) from the material select: the mass is
\* recomputed; payloadAssignment is not written.
handleParameterChange_payloadType(value) ==
  /\ PayloadOnly
  /\ payloadParameters' =
       [payloadParameters EXCEPT !.payloadType = value,
                                 !.payloadMass = Mass(payloadParameters.payloadVolume, value)]
  /\ step' = Quiet("PayloadControls.handleParameterChange")
  /\ UNCHANGED <<payloadAssignment, inflight, viaUI>>

\* handleParameterChange('payloadVolume', value) from the volume slider.
handleParameterChange_payloadVolume(value) ==
  /\ PayloadOnly
  /\ payloadParameters' =
       [payloadParameters EXCEPT !.payloadVolume = value,
                                 !.payloadMass = Mass(value, payloadParameters.payloadType)]
  /\ step' = Quiet("PayloadControls.handleParameterChange")
  /\ UNCHANGED <<payloadAssignment, inflight, viaUI>>

\* commitPayload(portalId) up to its await fetch(...): the load_payload request carries
\* the parameters of the calling render.
commitPayload(portalId) ==
  /\ PayloadOnly
  /\ AsyncLoad < MaxAsync
  /\ Fetch([api |-> "load_payload", fn |-> "commitPayload", portalId |-> portalId,
            parameters |-> payloadParameters,
            loadingBay |-> payloadAssignment.loadingBay])
  /\ step' = [fn |-> "commitPayload",
              request |-> [api |-> "load_payload", portal_id |-> portalId,
                           volume |-> payloadParameters.payloadVolume,
                           mass |-> payloadParameters.payloadMass,
                           material |-> payloadParameters.payloadType],
              alert |-> FALSE]
  /\ UNCHANGED <<payloadVars, viaUI>>

\* disabled={!payloadAssignment.loadingBay} of both Load buttons
LoadDisabled_Never(assignment) == FALSE

LoadDisabled(assignment) == assignment.loadingBay = Null

\* A click on Load -> Portal 1 or Load -> Portal 2: a disabled button calls no handler.
LoadButton_onClick(portalId) ==
  IF LoadDisabled(payloadAssignment)
    THEN /\ PayloadOnly
         /\ step' = [fn |-> "LoadButton:disabled", request |-> NoRequest, alert |-> FALSE]
         /\ UNCHANGED <<payloadVars, inflight, viaUI>>
    ELSE commitPayload(portalId)

\* commitPayload after the await: the response body parsed as JSON, whatever the HTTP
\* status (response.ok is not read); the description built from the parameters of the
\* calling render is assigned to the portal and the loading bay emptied.
commitPayload_resolved(task, ok) ==
  /\ PayloadOnly
  /\ task.api = "load_payload"
  /\ BagIn(task, inflight)
  /\ Settle(task)
  /\ payloadAssignment' =
       [payloadAssignment EXCEPT ![PortalKey(task.portalId)] = Description(task.parameters),
                                 !.loadingBay = Null]
  /\ step' = [fn |-> "commitPayload:resolved", request |-> NoRequest, alert |-> FALSE,
              portalId |-> task.portalId, parameters |-> task.parameters,
              loadingBay |-> task.loadingBay, ok |-> ok]
  /\ UNCHANGED <<payloadParameters, viaUI>>

\* commitPayload after the await: fetch or response.json() rejected (catch).
commitPayload_rejected(task) ==
  /\ PayloadOnly
  /\ task.api = "load_payload"
  /\ BagIn(task, inflight)
  /\ Settle(task)
  /\ step' = Quiet("commitPayload:rejected")
  /\ UNCHANGED <<payloadVars, viaUI>>

\* The state clearPayloadAfterTransfer stores.
ClearedParameters == [payloadVolume |-> 0, payloadMass |-> 0, payloadType |-> "Gold"]
ClearedAssignment == [portal1 |-> Null, portal2 |-> Null, loadingBay |-> Null]

\* clearPayloadAfterTransfer from the Clear All Payloads button.
clearPayloadAfterTransfer ==
  /\ PayloadOnly
  /\ payloadParameters' = ClearedParameters
  /\ payloadAssignment' = ClearedAssignment
  /\ step' = Quiet("clearPayloadAfterTransfer")
  /\ UNCHANGED <<inflight, viaUI>>

\* resetToIdleState up to its await fetch(...).
resetToIdleState ==
  /\ PayloadOnly
  /\ AsyncLoad < MaxAsync
  /\ Fetch([api |-> "reset_system", fn |-> "resetToIdleState"])
  /\ step' = [fn |-> "resetToIdleState", request |-> [api |-> "reset_system"],
              alert |-> FALSE]
  /\ UNCHANGED <<payloadVars, viaUI>>

\* resetToIdleState after the await: the payloads are cleared if (response.ok).
resetToIdleState_resolved(task, ok) ==
  /\ PayloadOnly
  /\ task.api = "reset_system" /\ task.fn = "resetToIdleState"
  /\ BagIn(task, inflight)
  /\ Settle(task)
  /\ payloadParameters' = IF ok THEN ClearedParameters ELSE payloadParameters
  /\ payloadAssignment' = IF ok THEN ClearedAssignment ELSE payloadAssignment
  /\ step' = [fn |-> "resetToIdleState:resolved", request |-> NoRequest,
              alert |-> FALSE, ok |-> ok]
  /\ UNCHANGED viaUI

\* resetToIdleState after the await: fetch rejected; the catch block clears the payloads.
resetToIdleState_rejected(task) ==
  /\ PayloadOnly
  /\ task.api = "reset_system" /\ task.fn = "resetToIdleState"
  /\ BagIn(task, inflight)
  /\ Settle(task)
  /\ payloadParameters' = ClearedParameters
  /\ payloadAssignment' = ClearedAssignment
  /\ step' = Quiet("resetToIdleState:rejected")
  /\ UNCHANGED viaUI

NextPayload ==
  \/ \E value \in Materials : handleParameterChange_payloadType(value)
  \/ \E value \in Volumes : handleParameterChange_payloadVolume(value)
  \/ \E portalId \in {1, 2} : LoadButton_onClick(portalId)
  \/ \E task \in Pending : \E ok \in BOOLEAN : commitPayload_resolved(task, ok)
  \/ \E task \in Pending : commitPayload_rejected(task)
  \/ clearPayloadAfterTransfer
  \/ resetToIdleState
  \/ \E task \in Pending : \E ok \in BOOLEAN : resetToIdleState_resolved(task, ok)
  \/ \E task \in Pending : resetToIdleState_rejected(task)

\* PayloadControls_v2 on its own.
SpecPayload == InitOps(V2) /\ [][NextPayload]_vars

----------------------------------------------------------------------------

(* evaluateSweepResults on its own *)

\* Strengths around the safety gate, in thousandths.  They are multiples of 0.004, so
\* that the mean of up to four of them never lies half-way between two thousandths,
\* where the digits toFixed(3) prints depend on the binary representation.
EvalStrengths == {308, 496, 500, 504, 620}

EvalResult(strength) ==
  [frequency1 |-> 783, frequency2 |-> 791, energy1 |-> 1000, energy2 |-> 1000,
   bridge_strength |-> strength]

EvalInputs ==
  UNION { [1..n -> {EvalResult(x) : x \in EvalStrengths}] : n \in 0..MaxEvalLen }

\* evaluateSweepResults(evalInput) in a component whose status is null.
Evaluate ==
  /\ evalOutput = Null
  /\ evalOutput' = evaluateSweepResults(evalInput, Null)
  /\ step' = Quiet("evaluateSweepResults")
  /\ UNCHANGED <<opsVars, scanVars, energyVars, evalInput, inflight, viaUI, connections,
                 appVars, payloadVars>>

InitEvaluate ==
  /\ InitOpsVars(V2)
  /\ InitPage
  /\ InitEnergyVars(EC2, 1)
  /\ evalInput \in EvalInputs
  /\ evalOutput = Null

SpecEvaluate == InitEvaluate /\ [][Evaluate]_vars

----------------------------------------------------------------------------
(* Claims *)

\* The grid point a request body was taken from passes the safety gate.
BodyPassesGate(body) ==
  \E r \in Candidates :
    /\ ApplyBody_v2(r) = ApplyBody_v2(body)
    /\ r.bridge_strength >= minAcceptableStrength

SentApply == step.request.api = "apply_optimal_parameters"

\* C1: every apply_optimal_parameters request OperationsControls_v2 sends carries the
\* frequencies and energies of a sweep result whose bridge_strength is >= 0.5.  Stated
\* for the runs in which every handler call came from an enabled control; it fails there.
C1_SafetyGate == (viaUI /\ SentApply) => BodyPassesGate(step.request.body)

\* C2: a non-null sweepApprovalStatus is the evaluation of the result list currently
\* held in sweepResults.  Stated for calls from enabled controls; it fails there.
C2_ApprovalKeyedToResults ==
  (viaUI /\ sweepApprovalStatus # Null) =>
    (Len(sweepResults) > 0 /\ sweepApprovalStatus = Evaluation(sweepResults))

\* C3: a call of applyOptimalParameters while sweepApprovalStatus is null or not approved
\* sends no request and leaves transportReady, sweepResults, sweepApprovalStatus and the
\* portal lock statuses unchanged.
C3_ApplyRejected ==
  [][(/\ step'.fn = "applyOptimalParameters"
      /\ (sweepApprovalStatus = Null \/ ~sweepApprovalStatus.approved)) =>
       /\ step'.request = NoRequest
       /\ inflight' = inflight
       /\ UNCHANGED <<transportReady, sweepResults, sweepApprovalStatus, stargateStatus>>
    ]_vars

\* C3 witness: applyOptimalParameters was called on a rejected sweep and refused.
C3_Witness ==
  /\ step.fn = "applyOptimalParameters"
  /\ step.alert
  /\ sweepApprovalStatus # Null
  /\ ~sweepApprovalStatus.approved

\* The largest bridge_strength of a non-empty list, from the set of its strengths.
MaxStrength(results) ==
  CHOOSE m \in {results[i].bridge_strength : i \in 1..Len(results)} :
    \A i \in 1..Len(results) : results[i].bridge_strength <= m

\* C4: for every non-empty result list, evaluateSweepResults stores approved = TRUE
\* if and only if the largest bridge_strength of the list is >= 0.5.
C4_ApprovedIffMaxPassesGate ==
  (Len(evalInput) > 0 /\ step.fn = "evaluateSweepResults") =>
    /\ evalOutput # Null
    /\ evalOutput.approved <=> (MaxStrength(evalInput) >= 500)

\* C4 witness: a list whose largest strength is exactly 0.5 was evaluated and approved.
C4_Witness ==
  /\ Len(evalInput) > 1
  /\ step.fn = "evaluateSweepResults"
  /\ MaxStrength(evalInput) = 500
  /\ evalOutput # Null
  /\ evalOutput.approved

SweepsSettled ==
  /\ timers = <<>>
  /\ \A task \in Pending : task.api # "parameter_sweep"

\* C5: once every sweep and its evaluation have completed and the last result list
\* received is empty, sweepApprovalStatus is null.  Stated for calls from enabled
\* controls; it fails there.
C5_EmptySweepUndetermined ==
  (viaUI /\ SweepsSettled /\ Len(sweepResults) = 0 /\ step.fn = "evaluateSweepResults")
    => sweepApprovalStatus = Null

\* C6: transportReady = TRUE implies both portals are LOCKED.  Stated for calls from
\* enabled controls; it fails there.
C6_ReadyOnlyIfBothLocked == (viaUI /\ transportReady) => BothLocked(stargateStatus)

\* C7: in OperationsControls, once lockStargateForTransport has completed for both
\* portals with locked = true, transportReady is true.  Stated for calls from enabled
\* controls; it fails there.
C7_ReadyWhenBothLocked ==
  (/\ viaUI
   /\ step.fn = "lockStargateForTransport:resolved"
   /\ \A task \in Pending : task.api # "lock_portal"
   /\ BothLocked(stargateStatus))
    => transportReady

UnlockCompleted ==
  step.fn \in {"unlockAllPortals:returned", "unlockAllPortals:resolved",
               "unlockAllPortals:rejected"}

\* C8: once unlockAllPortals has completed, both portal statuses are UNLOCKED and
\* transportReady is false, whatever the outcome of the unlock_portals request.  Stated
\* for calls from enabled controls; it fails there.
C8_UnlockUnconditional ==
  (viaUI /\ UnlockCompleted) =>
    /\ stargateStatus = [portal1 |-> "UNLOCKED", portal2 |-> "UNLOCKED"]
    /\ ~transportReady

\* C9: under every sequence of adjustments and energy-slider changes the energy of each
\* portal stays within [0, 20000] and is a multiple of the 100 J step, in both energy
\* components.
C9_EnergyInRangeOnStep ==
  \A portal \in {1, 2} :
    /\ parameters[EnergyKey(portal)] >= 0
    /\ parameters[EnergyKey(portal)] <= 20000
    /\ parameters[EnergyKey(portal)] % 100 = 0

\* C9 witness: an acknowledged increase from 19900, set by the slider, was clamped to
\* the top of the range.
C9_Witness ==
  /\ step.fn = "adjustEnergy:resolved"
  /\ step.ok
  /\ step.currentEnergy = 19900
  /\ parameters[EnergyKey(step.portal)] = 20000

ToggleOffCompleted ==
  /\ step.fn \in {"toggleEnergyState:resolved", "toggleEnergyState:rejected",
                  "toggleEnergyState:returned"}
  /\ ~step.newState

\* C10: once a toggleEnergyState that turned a portal OFF has completed and the portal
\* is shown OFF, the energy of that portal is 0.  Stated for calls from enabled controls;
\* it fails there.
C10_OffMeansZero ==
  (viaUI /\ ToggleOffCompleted /\ ~energyState[ActiveKey(step.portal)])
    => parameters[EnergyKey(step.portal)] = 0

\* C11: no adjustment changes the energy of a portal that is shown OFF: when the
\* response to an adjustEnergy request is handled while the portal's energy state is OFF,
\* the energy of that portal stays as it is.  Stated for calls from enabled controls; it
\* fails there.
C11_NoAdjustWhileOff ==
  [][(/\ viaUI
      /\ step'.fn = "adjustEnergy:resolved"
      /\ ~energyState[ActiveKey(step'.portal)]) =>
       /\ parameters'[EnergyKey(step'.portal)] = parameters[EnergyKey(step'.portal)]
       /\ energyState' = energyState
    ]_vars

\* C12: no step changes the frequency of a portal whose energy state is OFF, in either
\* energy component.  Stated for calls from enabled controls; it fails there.
C12_FrequencyFixedWhileOff ==
  [][\A portal \in {1, 2} :
       (viaUI' /\ ~energyState[ActiveKey(portal)]) =>
         parameters'[FrequencyKey(portal)] = parameters[FrequencyKey(portal)]
    ]_vars

\* C13: a toggleEnergyState that turned a portal ON and has completed successfully
\* leaves the energy of that portal at 1000 if it was 0 before, and as it was if it was
\* not 0, in both energy components.  Stated for calls from enabled controls; it fails
\* there.
C13_TurnOnDefaultsFromZero ==
  [][(/\ viaUI
      /\ \/ step'.fn = "toggleEnergyState:returned"
         \/ (step'.fn = "toggleEnergyState:resolved" /\ step'.ok)
      /\ step'.newState) =>
       parameters'[EnergyKey(step'.portal)] =
         IF parameters[EnergyKey(step'.portal)] = 0
           THEN 1000
           ELSE parameters[EnergyKey(step'.portal)]
    ]_vars

\* C14: in EnergyControls_v2 used one request at a time, an acknowledged turn-on of a
\* portal with energy 0 gives energy 1000, an acknowledged increase adds 1000 up to 20000
\* and an acknowledged decrease subtracts 1000 down to 0.
C14_SequentialAdjustments ==
  [][/\ (/\ step'.fn = "toggleEnergyState:resolved"
         /\ step'.ok
         /\ step'.newState
         /\ parameters[EnergyKey(step'.portal)] = 0) =>
          parameters'[EnergyKey(step'.portal)] = 1000
     /\ (/\ step'.fn = "adjustEnergy:resolved"
         /\ step'.ok) =>
          parameters'[EnergyKey(step'.portal)] =
            IF step'.action = "increase"
              THEN (IF parameters[EnergyKey(step'.portal)] + 1000 > 20000
                      THEN 20000
                      ELSE parameters[EnergyKey(step'.portal)] + 1000)
              ELSE (IF parameters[EnergyKey(step'.portal)] - 1000 < 0
                      THEN 0
                      ELSE parameters[EnergyKey(step'.portal)] - 1000)
    ]_vars

\* C14 witness: the scenario's last step, an acknowledged decrease from 4000 to 3000.
C14_Witness ==
  /\ step.fn = "adjustEnergy:resolved"
  /\ step.ok
  /\ step.action = "decrease"
  /\ step.currentEnergy = 4000
  /\ parameters[EnergyKey(step.portal)] = 3000
  /\ energyState[ActiveKey(step.portal)]

\* An energy moved by 1000 J up or down within [0, 20000].
Shifted(energy, action) ==
  IF action = "increase"
    THEN (IF energy + 1000 > 20000 THEN 20000 ELSE energy + 1000)
    ELSE (IF energy - 1000 < 0 THEN 0 ELSE energy - 1000)

\* C15: when two adjustEnergy calls on the same portal, both made at energy E before
\* either response, are both acknowledged, the energy shown after the second response is
\* E with both adjustments applied (in one order or the other).  Stated for calls from
\* enabled controls; it fails there.
C15_NoLostUpdates ==
  [][(/\ viaUI
      /\ step.fn = "adjustEnergy:resolved"
      /\ step.ok
      /\ step'.fn = "adjustEnergy:resolved"
      /\ step'.ok
      /\ step'.portal = step.portal
      /\ step'.currentEnergy = step.currentEnergy) =>
       parameters'[EnergyKey(step.portal)] \in
         { Shifted(Shifted(step.currentEnergy, step.action), step'.action),
           Shifted(Shifted(step.currentEnergy, step'.action), step.action) }
    ]_vars

\* What the mounted EnergyControls_v2 shows for its portal agrees with the store.
ShowsStore ==
  /\ energyState[ActiveKey(portalNumber)]
       <=> (backend[PortalKey(portalNumber)].energyState = "ON")
  /\ parameters[EnergyKey(portalNumber)] = backend[PortalKey(portalNumber)].energyJoules

\* C16: once no request is open and the connected App_v8 has received the snapshot of
\* the current store, the energy state and energy EnergyControls_v2 shows for its portal
\* are those of the store.  Stated for calls from enabled controls; it fails there.
C16_ObserversConverge ==
  (/\ viaUI
   /\ inflight = EmptyBag
   /\ wsConnected
   /\ socket.frames = <<>>
   /\ simulationData = Snapshot(backend)) => ShowsStore

\* C18: a lock operation that reaches a portal already LOCKED has no effect: when the
\* response to a lock_portal request is handled while the portal is LOCKED, both portal
\* statuses and transportReady stay as they are, whatever the response says.  Stated for
\* calls from enabled controls; it fails there.
C18_LockOnLockedNoEffect ==
  [][(/\ viaUI
      /\ step'.fn = "lockStargateForTransport:resolved"
      /\ stargateStatus[PortalKey(step'.portalId)] = "LOCKED") =>
       /\ stargateStatus' = stargateStatus
       /\ transportReady' = transportReady
    ]_vars

\* C19: each portal's lock status is UNLOCKED or LOCKED.  Stated for calls from enabled
\* controls; it fails there.
C19_LockStatusValues ==
  viaUI => \A portalId \in {1, 2} :
             stargateStatus[PortalKey(portalId)] \in {"UNLOCKED", "LOCKED"}

\* C20: every scan completes: whenever isScanning is true it eventually becomes false
\* again, whatever the backend does.  Stated for calls from enabled controls; it fails
\* there.
C20_ScanCompletes == (viaUI /\ isScanning) ~> (~viaUI \/ ~isScanning)

\* C17: right after resetEnergyToIdle has completed on a response to its reset_system
\* request, the mounted components show the zero state: both portals OFF with energy 0
\* and UNLOCKED, transportReady false, no sweep approval and no scan result.  Stated for
\* calls from enabled controls; it fails there.
C17_ResetShowsZeroState ==
  (viaUI /\ step.fn = "resetEnergyToIdle:resolved") =>
    /\ energyState = [portal1Active |-> FALSE, portal2Active |-> FALSE]
    /\ parameters.energy1 = 0
    /\ parameters.energy2 = 0
    /\ stargateStatus = [portal1 |-> "UNLOCKED", portal2 |-> "UNLOCKED"]
    /\ ~transportReady
    /\ sweepApprovalStatus = Null
    /\ scanResults = Null

\* C25: after toggleEnergyState of EnergyControls_v2 has completed with a failed request
\* (a non-OK response or a network error), the energy state and the energy of the portal
\* are those from before the toggle.  With one request at a time the state before the
\* toggle is the opposite of newState and the energy is the one still shown.  Stated for
\* calls from enabled controls; it fails there.
C25_ToggleRolledBack ==
  [][(/\ viaUI
      /\ \/ (step'.fn = "toggleEnergyState:resolved" /\ ~step'.ok)
         \/ step'.fn = "toggleEnergyState:rejected") =>
       /\ energyState'[ActiveKey(step'.portal)] = ~step'.newState
       /\ parameters'[EnergyKey(step'.portal)] = parameters[EnergyKey(step'.portal)]
    ]_vars

\* C26: a frame that is no serialised snapshot is ignored by ws.onmessage (simulationData
\* and wsConnected stay as they are), a snapshot frame is applied whatever came before
\* it, and after ws.onclose or ws.onerror wsConnected is false.
C26_MalformedFrameIgnored ==
  [][/\ (step'.fn = "ws.onmessage" /\ step'.frame \in MalformedFrames) =>
          (simulationData' = simulationData /\ wsConnected' = wsConnected)
     /\ (step'.fn = "ws.onmessage" /\ step'.frame \notin MalformedFrames) =>
          (simulationData' = step'.frame /\ wsConnected' = wsConnected)
     /\ (step'.fn \in {"ws.onclose", "ws.onerror"}) => ~wsConnected'
    ]_vars

\* C27: in OperationsControls_v2 transportReady becomes true only on the step that
\* handles an OK response to the apply_optimal_parameters request; a non-OK response and
\* a failed request leave transportReady as it is.  Stated for calls from enabled
\* controls; it fails there.
C27_ReadyOnlyOnSuccess ==
  [][/\ (viaUI /\ ~transportReady /\ transportReady') =>
          (step'.fn = "applyOptimalParameters:resolved" /\ step'.ok)
     /\ (/\ viaUI
         /\ \/ (step'.fn = "applyOptimalParameters:resolved" /\ ~step'.ok)
            \/ step'.fn = "applyOptimalParameters:rejected") =>
          transportReady' = transportReady
    ]_vars

\* C29: in every reachable state of either energy component, the initial state included,
\* a portal whose energy state is OFF has energy 0.  Stated for calls from enabled
\* controls; it fails there.
C29_OffHasNoEnergy ==
  viaUI => \A portal \in {1, 2} :
             ~energyState[ActiveKey(portal)] => parameters[EnergyKey(portal)] = 0

\* C30: once every toggleEnergyState request of EnergyControls_v2 has completed, the
\* ON/OFF state shown for the portal is the orchestrator's, which applied, in the order
\* they were sent, exactly the requests that succeeded.  Stated for calls from enabled
\* controls; it fails there.
C30_ToggleAgreesWithBackend ==
  (viaUI /\ inflight = EmptyBag) =>
    (energyState[ActiveKey(portalNumber)]
       <=> (backend[PortalKey(portalNumber)].energyState = "ON"))

\* The distance between two integers.
Distance(a, b) == IF a > b THEN a - b ELSE b - a

\* C21: in every reachable state of PayloadControls_v2 payloadMass is payloadVolume x
\* density(payloadType) rounded to 2 decimals: no hundredth of a kilogram is nearer to
\* the product than payloadMass is (its distance to the product is at most 0.005).
C21_MassDerived ==
  LET density == materialDensities[payloadParameters.payloadType]
  IN 2 * Distance(payloadParameters.payloadMass * density.den,
                  payloadParameters.payloadVolume * density.num) <= density.den

\* C21 witness: the volume slider was set to 0.19 m3 of gold and the mass recomputed to
\* 3.67 kg (0.19 x 19.3 = 3.667).
C21_Witness ==
  /\ step.fn = "PayloadControls.handleParameterChange"
  /\ payloadParameters = [payloadVolume |-> 19, payloadMass |-> 367, payloadType |-> "Gold"]

\* C22: when commitPayload(p) completes on an OK response, the payload assigned to
\* portal p is the one that was staged in the loading bay when the commit was made, the
\* load_payload request carried that same payload (material and mass), and the loading
\* bay is empty.  Stated for calls from enabled controls; it fails there.
C22_CommitAssignsStaged ==
  [][(viaUI /\ step'.fn = "commitPayload:resolved" /\ step'.ok) =>
       /\ payloadAssignment'[PortalKey(step'.portalId)] = step'.loadingBay
       /\ Description(step'.parameters) = step'.loadingBay
       /\ payloadAssignment'.loadingBay = Null
    ]_vars

\* C28: when the load_payload request of commitPayload gets a non-OK response or fails,
\* the portal assignments and the loading bay stay as they are.  Stated for calls from
\* enabled controls; it fails there.
C28_RejectedLoadChangesNothing ==
  [][(/\ viaUI
      /\ \/ (step'.fn = "commitPayload:resolved" /\ ~step'.ok)
         \/ step'.fn = "commitPayload:rejected") =>
       payloadAssignment' = payloadAssignment
    ]_vars

\* C24: after handleParameterChange has set a material or a volume, the loading bay
\* holds the payload configured: the material and the mass now shown.  Stated for calls
\* from enabled controls; it fails there.
C24_ConfiguringStages ==
  [][(viaUI /\ step'.fn = "PayloadControls.handleParameterChange") =>
       payloadAssignment'.loadingBay = Description(payloadParameters')
    ]_vars

\* C23: a commit attempted while the loading bay is empty sends no load_payload request
\* and leaves the portal assignments and the loading bay as they are.
C23_CommitWithoutStaged ==
  [][(/\ payloadAssignment.loadingBay = Null
      /\ step'.fn \in {"commitPayload", "LoadButton:disabled"}) =>
       /\ step'.request = NoRequest
       /\ inflight' = inflight
       /\ payloadAssignment' = payloadAssignment
    ]_vars

\* C23 witness: a Load button was clicked after the staged payload had been committed to
\* a portal, and nothing was sent.
C23_Witness ==
  /\ step.fn = "LoadButton:disabled"
  /\ payloadAssignment.loadingBay = Null
  /\ payloadAssignment.portal1 # Null
  /\ inflight = EmptyBag

====
